---- MODULE Spec2Model ----
(***************************************************************************)
(* Chat streaming of the compliance analyzer front end:                    *)
(*   - streamChat (api/client.ts): the event-stream transport parser;      *)
(*   - useChat (hooks/useChat.ts): the conversation state machine;         *)
(*   - ChatPanel (components/ChatPanel.tsx): the submit and clear guards.  *)
(*                                                                         *)
(* Text is a sequence of UTF-16 code units (naturals), bytes are naturals  *)
(* below 256.  JavaScript values are records [t |-> type, v |-> payload].  *)
(***************************************************************************)
EXTENDS Integers, Sequences, FiniteSets, TLC

(***************************************************************************)
(* Text helpers                                                            *)
(***************************************************************************)

\* The printable ASCII characters in code order, starting at code 32 (the
\* grave accent, code 96, is spelled out).
Printable ==
  << " ", "!", "\"", "#", "$", "%", "&", "'", "(", ")", "*", "+", ",", "-",
     ".", "/", "0", "1", "2", "3", "4", "5", "6", "7", "8", "9", ":", ";",
     "<", "=", ">", "?", "@", "A", "B", "C", "D", "E", "F", "G", "H", "I",
     "J", "K", "L", "M", "N", "O", "P", "Q", "R", "S", "T", "U", "V", "W",
     "X", "Y", "Z", "[", "\\", "]", "^", "_", "grave", "a", "b", "c", "d", "e",
     "f", "g", "h", "i", "j", "k", "l", "m", "n", "o", "p", "q", "r", "s",
     "t", "u", "v", "w", "x", "y", "z", "{", "|", "}", "~" >>

\* The code of one printable ASCII character.
Asc(c) == 31 + (CHOOSE i \in DOMAIN Printable : Printable[i] = c)

\* The text (code units) of a sequence of printable ASCII characters.
S(chars) == [i \in DOMAIN chars |-> Asc(chars[i])]

\* A value bound to a name: With(e, LAMBDA x : f) is f with e for x.
With(x, Op(_)) == Op(x)

LF == <<10>>
CR == <<13>>

\* The concatenation of a sequence of texts.
RECURSIVE Flatten(_)
Flatten(parts) ==
  IF Len(parts) = 0 THEN <<>>
  ELSE IF Len(parts) = 1 THEN parts[1]
  ELSE LET m == Len(parts) \div 2 IN
       Flatten(SubSeq(parts, 1, m)) \o Flatten(SubSeq(parts, m + 1, Len(parts)))

\* String.prototype.startsWith
StartsWith(s, p) == Len(s) >= Len(p) /\ SubSeq(s, 1, Len(p)) = p

\* String.prototype.slice(n) for 0 <= n
Slice(s, n) == SubSeq(s, n + 1, Len(s))

\* The white space String.prototype.trim strips (the code units of
\* WhiteSpace and LineTerminator that fit the modelled alphabet).
IsWhite(c) == c \in {9, 10, 11, 12, 13, 32, 160, 65279}

\* String.prototype.trim
Trim(s) ==
  LET keep == {i \in 1..Len(s) : ~IsWhite(s[i])} IN
  IF keep = {} THEN <<>>
  ELSE SubSeq(s, CHOOSE i \in keep : \A j \in keep : i <= j,
                 CHOOSE i \in keep : \A j \in keep : j <= i)

\* String.prototype.split on the line feed: the segments between line
\* feeds; a text with n line feeds has n + 1 segments.
SplitLines(s) ==
  LET feeds == {i \in 1..Len(s) : s[i] = 10}
      n == Cardinality(feeds)
      edge(k) == IF k = 0 THEN 0
                 ELSE IF k = n + 1 THEN Len(s) + 1
                 ELSE CHOOSE i \in feeds : Cardinality({j \in feeds : j <= i}) = k
  IN [k \in 1..(n + 1) |-> SubSeq(s, edge(k - 1) + 1, edge(k) - 1)]

(***************************************************************************)
(* TextDecoder('utf-8').decode(value, {stream: true})                      *)
(***************************************************************************)

\* The decoder of a new TextDecoder: no sequence in progress, BOM not seen.
NewDecoder ==
  [needed |-> 0, seen |-> 0, cp |-> 0, lo |-> 128, hi |-> 191, bom |-> FALSE]

\* The code units of one code point (a surrogate pair above the BMP).
Units(cp) ==
  IF cp < 65536 THEN <<cp>>
  ELSE << 55296 + ((cp - 65536) \div 1024), 56320 + ((cp - 65536) % 1024) >>

\* One byte through the UTF-8 decoder: [d |-> decoder, out |-> code points,
\* again |-> whether the byte is to be processed again].
DecodeByte(d, b) ==
  LET idle == [d EXCEPT !.needed = 0, !.seen = 0, !.cp = 0, !.lo = 128, !.hi = 191] IN
  IF d.needed = 0 THEN
    IF b <= 127 THEN [d |-> d, out |-> <<b>>, again |-> FALSE]
    ELSE IF b >= 194 /\ b <= 223 THEN
      [d |-> [d EXCEPT !.needed = 1, !.cp = b - 192], out |-> <<>>, again |-> FALSE]
    ELSE IF b >= 224 /\ b <= 239 THEN
      [d |-> [d EXCEPT !.needed = 2, !.cp = b - 224,
                       !.lo = IF b = 224 THEN 160 ELSE 128,
                       !.hi = IF b = 237 THEN 159 ELSE 191],
       out |-> <<>>, again |-> FALSE]
    ELSE IF b >= 240 /\ b <= 244 THEN
      [d |-> [d EXCEPT !.needed = 3, !.cp = b - 240,
                       !.lo = IF b = 240 THEN 144 ELSE 128,
                       !.hi = IF b = 244 THEN 143 ELSE 191],
       out |-> <<>>, again |-> FALSE]
    ELSE [d |-> d, out |-> <<65533>>, again |-> FALSE]
  ELSE IF b < d.lo \/ b > d.hi THEN
    [d |-> idle, out |-> <<65533>>, again |-> TRUE]
  ELSE
    LET cp == d.cp * 64 + (b - 128) IN
    IF d.seen + 1 = d.needed
      THEN [d |-> idle, out |-> <<cp>>, again |-> FALSE]
      ELSE [d |-> [d EXCEPT !.cp = cp, !.seen = d.seen + 1, !.lo = 128, !.hi = 191],
            out |-> <<>>, again |-> FALSE]

\* The bytes of one chunk through the decoder: [d |-> decoder, out |-> code
\* points]; a sequence left unfinished at the end of the chunk stays in d.
RECURSIVE DecodeBytes(_, _)
DecodeBytes(d, bytes) ==
  IF Len(bytes) = 0 THEN [out |-> <<>>, d |-> d]
  ELSE IF Len(bytes) = 1 THEN
    With(DecodeByte(d, bytes[1]), LAMBDA r :
      IF r.again
        THEN With(DecodeByte(r.d, bytes[1]), LAMBDA r2 :
               [out |-> r.out \o r2.out, d |-> r2.d])
        ELSE [out |-> r.out, d |-> r.d])
  ELSE
    With(Len(bytes) \div 2, LAMBDA m :
      With(DecodeBytes(d, SubSeq(bytes, 1, m)), LAMBDA a :
        With(DecodeBytes(a.d, SubSeq(bytes, m + 1, Len(bytes))), LAMBDA b :
          [out |-> a.out \o b.out, d |-> b.d])))

AllUnits(cps) == Flatten([i \in 1..Len(cps) |-> Units(cps[i])])

\* decoder.decode(value, {stream: true}): [d |-> decoder, text |-> code units].
\* A leading byte order mark is dropped once, at the start of the stream.
Decode(d, bytes) ==
  With(DecodeBytes(d, bytes), LAMBDA r :
    With(~d.bom /\ r.out # <<>>, LAMBDA first :
      [d |-> [r.d EXCEPT !.bom = d.bom \/ first],
       text |-> AllUnits(IF first /\ Head(r.out) = 65279 THEN Tail(r.out) ELSE r.out)]))

(***************************************************************************)
(* JavaScript values and JSON.parse                                        *)
(***************************************************************************)

Undefined == [t |-> "undefined", v |-> <<>>]
Null      == [t |-> "null", v |-> <<>>]
Bool(b)   == [t |-> "boolean", v |-> <<b>>]
Num(n)    == [t |-> "number", v |-> <<n>>]
Str(s)    == [t |-> "string", v |-> s]
Arr(vs)   == [t |-> "array", v |-> vs]
\* An object: its members [k |-> key text, v |-> value] in source order.
Obj(ms)   == [t |-> "object", v |-> ms]

IsJsonWhite(c) == c \in {9, 10, 13, 32}
IsDigit(c) == c >= 48 /\ c <= 57
IsHex(c) == IsDigit(c) \/ (c >= 65 /\ c <= 70) \/ (c >= 97 /\ c <= 102)
HexVal(c) == IF IsDigit(c) THEN c - 48 ELSE IF c >= 97 THEN c - 87 ELSE c - 55

ParseFail(i) == [ok |-> FALSE, v |-> Undefined, i |-> i]
ParseOk(v, i) == [ok |-> TRUE, v |-> v, i |-> i]

RECURSIVE SkipWs(_, _)
SkipWs(s, i) == IF i <= Len(s) /\ IsJsonWhite(s[i]) THEN SkipWs(s, i + 1) ELSE i

\* The characters of a JSON string from position i (after the opening quote).
RECURSIVE ParseChars(_, _, _)
ParseChars(s, i, acc) ==
  IF i > Len(s) THEN ParseFail(i)
  ELSE IF s[i] = 34 THEN ParseOk(Str(acc), i + 1)
  ELSE IF s[i] < 32 THEN ParseFail(i)
  ELSE IF s[i] # 92 THEN ParseChars(s, i + 1, Append(acc, s[i]))
  ELSE IF i + 1 > Len(s) THEN ParseFail(i)
  ELSE LET e == s[i + 1] IN
    IF e \in {34, 92, 47} THEN ParseChars(s, i + 2, Append(acc, e))
    ELSE IF e = 98 THEN ParseChars(s, i + 2, Append(acc, 8))
    ELSE IF e = 102 THEN ParseChars(s, i + 2, Append(acc, 12))
    ELSE IF e = 110 THEN ParseChars(s, i + 2, Append(acc, 10))
    ELSE IF e = 114 THEN ParseChars(s, i + 2, Append(acc, 13))
    ELSE IF e = 116 THEN ParseChars(s, i + 2, Append(acc, 9))
    ELSE IF e = 117 /\ i + 5 <= Len(s) /\ \A k \in 2..5 : IsHex(s[i + k]) THEN
      ParseChars(s, i + 6,
        Append(acc, HexVal(s[i + 2]) * 4096 + HexVal(s[i + 3]) * 256
                    + HexVal(s[i + 4]) * 16 + HexVal(s[i + 5])))
    ELSE ParseFail(i)

RECURSIVE ParseDigits(_, _, _)
ParseDigits(s, i, n) ==
  IF i <= Len(s) /\ IsDigit(s[i]) THEN ParseDigits(s, i + 1, n * 10 + (s[i] - 48))
  ELSE [n |-> n, i |-> i]

\* A JSON number from position i.  Integers only: the modelled payloads hold
\* no fraction and no exponent.
ParseNumber(s, i) ==
  LET neg == s[i] = 45
      j == IF neg THEN i + 1 ELSE i
  IN IF j > Len(s) \/ ~IsDigit(s[j]) THEN ParseFail(i)
     ELSE IF s[j] = 48 THEN ParseOk(Num(0), j + 1)
     ELSE With(ParseDigits(s, j, 0), LAMBDA r :
            ParseOk(Num(IF neg THEN 0 - r.n ELSE r.n), r.i))

ParseLiteral(s, i, word, v) ==
  IF i + Len(word) - 1 <= Len(s) /\ SubSeq(s, i, i + Len(word) - 1) = word
    THEN ParseOk(v, i + Len(word)) ELSE ParseFail(i)

RECURSIVE ParseValue(_, _)
RECURSIVE ParseElements(_, _, _)
RECURSIVE ParseMembers(_, _, _)
RECURSIVE ParseMember(_, _, _, _)

\* The elements of an array from position i (the first element), up to "]".
ParseElements(s, i, acc) ==
  With(ParseValue(s, SkipWs(s, i)), LAMBDA r :
    IF ~r.ok THEN r
    ELSE With(SkipWs(s, r.i), LAMBDA j :
      IF j > Len(s) THEN ParseFail(j)
      ELSE IF s[j] = 93 THEN ParseOk(Arr(Append(acc, r.v)), j + 1)
      ELSE IF s[j] = 44 THEN ParseElements(s, j + 1, Append(acc, r.v))
      ELSE ParseFail(j)))

\* The value of a member whose key was read, from position c (the colon),
\* and the members after it.
ParseMember(s, c, key, acc) ==
  IF c > Len(s) \/ s[c] # 58 THEN ParseFail(c)
  ELSE With(ParseValue(s, SkipWs(s, c + 1)), LAMBDA r :
    IF ~r.ok THEN r
    ELSE With(SkipWs(s, r.i), LAMBDA j :
      With(Append(acc, [k |-> key, v |-> r.v]), LAMBDA ms :
        IF j > Len(s) THEN ParseFail(j)
        ELSE IF s[j] = 125 THEN ParseOk(Obj(ms), j + 1)
        ELSE IF s[j] = 44 THEN ParseMembers(s, j + 1, ms)
        ELSE ParseFail(j))))

\* The members of an object from position i (the first key), up to "}".
ParseMembers(s, i, acc) ==
  With(SkipWs(s, i), LAMBDA k :
    IF k > Len(s) \/ s[k] # 34 THEN ParseFail(k)
    ELSE With(ParseChars(s, k + 1, <<>>), LAMBDA key :
      IF ~key.ok THEN key ELSE ParseMember(s, SkipWs(s, key.i), key.v.v, acc)))

\* One JSON value from position i (white space already skipped).
ParseValue(s, i) ==
  IF i > Len(s) THEN ParseFail(i)
  ELSE IF s[i] = 34 THEN ParseChars(s, i + 1, <<>>)
  ELSE IF s[i] = 123 THEN
    With(SkipWs(s, i + 1), LAMBDA j :
      IF j <= Len(s) /\ s[j] = 125 THEN ParseOk(Obj(<<>>), j + 1)
      ELSE ParseMembers(s, j, <<>>))
  ELSE IF s[i] = 91 THEN
    With(SkipWs(s, i + 1), LAMBDA j :
      IF j <= Len(s) /\ s[j] = 93 THEN ParseOk(Arr(<<>>), j + 1)
      ELSE ParseElements(s, j, <<>>))
  ELSE IF s[i] = 116 THEN ParseLiteral(s, i, S(<<"t", "r", "u", "e">>), Bool(TRUE))
  ELSE IF s[i] = 102 THEN ParseLiteral(s, i, S(<<"f", "a", "l", "s", "e">>), Bool(FALSE))
  ELSE IF s[i] = 110 THEN ParseLiteral(s, i, S(<<"n", "u", "l", "l">>), Null)
  ELSE IF s[i] = 45 \/ IsDigit(s[i]) THEN ParseNumber(s, i)
  ELSE ParseFail(i)

\* JSON.parse(text): [ok |-> FALSE] where it throws a SyntaxError, else the value.
JsonParse(text) ==
  With(ParseValue(text, SkipWs(text, 1)), LAMBDA r :
    IF r.ok /\ SkipWs(text, r.i) > Len(text) THEN [ok |-> TRUE, v |-> r.v]
    ELSE [ok |-> FALSE, v |-> Undefined])

\* Whether reading a property of value d throws a TypeError.
GetThrows(d) == d.t \in {"null", "undefined"}

\* d.key for a key that no prototype defines (message, token, error,
\* requirements, compliance_results): the member written last, else undefined.
Get(d, key) ==
  IF d.t # "object" THEN Undefined
  ELSE LET hits == {m \in DOMAIN d.v : d.v[m].k = key} IN
       IF hits = {} THEN Undefined
       ELSE d.v[CHOOSE m \in hits : \A n \in hits : n <= m].v

\* The decimal text of a natural number.
RECURSIVE Digits(_)
Digits(n) == IF n < 10 THEN <<48 + n>> ELSE Digits(n \div 10) \o <<48 + (n % 10)>>

\* ToString(value), as string concatenation and template literals apply it.
RECURSIVE JsToString(_)
RECURSIVE Join(_)
Join(vs) ==
  IF vs = <<>> THEN <<>>
  ELSE (IF Head(vs).t \in {"null", "undefined"} THEN <<>> ELSE JsToString(Head(vs)))
         \o (IF Len(vs) = 1 THEN <<>> ELSE <<44>> \o Join(Tail(vs)))

JsToString(val) ==
  CASE val.t = "string" -> val.v
    [] val.t = "undefined" -> S(<<"u", "n", "d", "e", "f", "i", "n", "e", "d">>)
    [] val.t = "null" -> S(<<"n", "u", "l", "l">>)
    [] val.t = "boolean" ->
         IF val.v[1] THEN S(<<"t", "r", "u", "e">>) ELSE S(<<"f", "a", "l", "s", "e">>)
    [] val.t = "number" ->
         IF val.v[1] < 0 THEN <<45>> \o Digits(0 - val.v[1]) ELSE Digits(val.v[1])
    [] val.t = "array" -> Join(val.v)
    [] val.t = "object" ->
         S(<<"[", "o", "b", "j", "e", "c", "t", " ", "O", "b", "j", "e", "c", "t", "]">>)

(***************************************************************************)
(* streamChat: line processing and chunk processing                        *)
(***************************************************************************)

KwEvent == S(<<"e", "v", "e", "n", "t", ":">>)
KwData == S(<<"d", "a", "t", "a", ":">>)
NmStatus == S(<<"s", "t", "a", "t", "u", "s">>)
NmRequirements == S(<<"r", "e", "q", "u", "i", "r", "e", "m", "e", "n", "t", "s">>)
NmToken == S(<<"t", "o", "k", "e", "n">>)
NmDone == S(<<"d", "o", "n", "e">>)
NmError == S(<<"e", "r", "r", "o", "r">>)
KeyMessage == S(<<"m", "e", "s", "s", "a", "g", "e">>)
KeyComplianceResults ==
  S(<<"c", "o", "m", "p", "l", "i", "a", "n", "c", "e", "_", "r", "e", "s", "u", "l", "t", "s">>)

Call(cb, args) == [cb |-> cb, args |-> args]

\* A switch whose unmatched event names fall to the token case.
DispatchDefaulting(currentEvent, data) ==
  CASE currentEvent = NmStatus ->
         IF GetThrows(data) THEN <<>> ELSE <<Call("onStatus", <<Get(data, KeyMessage)>>)>>
    [] currentEvent = NmRequirements ->
         IF GetThrows(data) THEN <<>>
         ELSE <<Call("onRequirements",
                     <<Get(data, NmRequirements), Get(data, KeyComplianceResults)>>)>>
    [] currentEvent = NmDone -> <<Call("onDone", <<>>)>>
    [] currentEvent = NmError ->
         IF GetThrows(data) THEN <<>> ELSE <<Call("onError", <<Get(data, NmError)>>)>>
    [] OTHER ->
         IF GetThrows(data) THEN <<>> ELSE <<Call("onToken", <<Get(data, NmToken)>>)>>

\* The switch on currentEvent: the callbacks invoked for one parsed payload
\* (none when the event name is not recognised, or when reading a property
\* of the payload throws, which the surrounding try/catch swallows).
Dispatch(currentEvent, data) ==
  CASE currentEvent = NmStatus ->
         IF GetThrows(data) THEN <<>> ELSE <<Call("onStatus", <<Get(data, KeyMessage)>>)>>
    [] currentEvent = NmRequirements ->
         IF GetThrows(data) THEN <<>>
         ELSE <<Call("onRequirements",
                     <<Get(data, NmRequirements), Get(data, KeyComplianceResults)>>)>>
    [] currentEvent = NmToken ->
         IF GetThrows(data) THEN <<>> ELSE <<Call("onToken", <<Get(data, NmToken)>>)>>
    [] currentEvent = NmDone -> <<Call("onDone", <<>>)>>
    [] currentEvent = NmError ->
         IF GetThrows(data) THEN <<>> ELSE <<Call("onError", <<Get(data, NmError)>>)>>
    [] OTHER -> <<>>

\* A data line handled without the catch of a parse failure: the payload
\* that is no JSON is dispatched as an empty object.
DataLineUncaught(currentEvent, line) ==
  With(Trim(Slice(line, 5)), LAMBDA dataStr :
    IF dataStr = <<>> THEN <<>>
    ELSE With(JsonParse(dataStr), LAMBDA parsed :
      Dispatch(currentEvent, IF parsed.ok THEN parsed.v ELSE Obj(<<>>))))

\* A data line whose empty payload is dispatched as an empty object.
DataLineEmptyAsObject(currentEvent, line) ==
  With(Trim(Slice(line, 5)), LAMBDA dataStr :
    IF dataStr = <<>> THEN Dispatch(currentEvent, Obj(<<>>))
    ELSE With(JsonParse(dataStr), LAMBDA parsed :
      IF ~parsed.ok THEN <<>> ELSE Dispatch(currentEvent, parsed.v)))

\* The callbacks of one data line: none for an empty payload or one that
\* JSON.parse rejects.
DataLine(currentEvent, line) ==
  With(Trim(Slice(line, 5)), LAMBDA dataStr :
    IF dataStr = <<>> THEN <<>>
    ELSE With(JsonParse(dataStr), LAMBDA parsed :
      IF ~parsed.ok THEN <<>> ELSE Dispatch(currentEvent, parsed.v)))

\* Line handling in which an empty line ends the event and resets the name.
ProcessLineResetting(currentEvent, line) ==
  IF StartsWith(line, KwEvent)
    THEN [currentEvent |-> Trim(Slice(line, 6)), calls |-> <<>>]
  ELSE IF StartsWith(line, KwData)
    THEN [currentEvent |-> currentEvent, calls |-> DataLine(currentEvent, line)]
  ELSE [currentEvent |-> IF line = <<>> THEN <<>> ELSE currentEvent, calls |-> <<>>]

\* The body of the loop over lines: [currentEvent, calls] after one line.
ProcessLine(currentEvent, line) ==
  IF StartsWith(line, KwEvent)
    THEN [currentEvent |-> Trim(Slice(line, 6)), calls |-> <<>>]
  ELSE IF StartsWith(line, KwData)
    THEN [currentEvent |-> currentEvent, calls |-> DataLine(currentEvent, line)]
  ELSE [currentEvent |-> currentEvent, calls |-> <<>>]

\* The loop over lines with each line's callbacks put before the earlier ones.
RECURSIVE ProcessLinesReversed(_, _, _)
ProcessLinesReversed(currentEvent, lines, calls) ==
  IF lines = <<>> THEN [currentEvent |-> currentEvent, calls |-> calls]
  ELSE With(ProcessLine(currentEvent, Head(lines)), LAMBDA r :
         ProcessLinesReversed(r.currentEvent, Tail(lines), r.calls \o calls))

RECURSIVE ProcessLines(_, _, _)
ProcessLines(currentEvent, lines, calls) ==
  IF lines = <<>> THEN [currentEvent |-> currentEvent, calls |-> calls]
  ELSE With(ProcessLine(currentEvent, Head(lines)), LAMBDA r :
         ProcessLines(r.currentEvent, Tail(lines), calls \o r.calls))

\* The locals of streamChat before the first read.
NewParser == [currentEvent |-> <<>>, buffer |-> <<>>, decoder |-> NewDecoder]

\* A carry-over that keeps nothing of the last segment.
CarryOverDropped(segments) == <<>>

\* The carry-over kept after a chunk: the last segment of the split.
CarryOver(segments) == segments[Len(segments)]

\* A chunk decoded on its own, by a decoder that remembers nothing of the
\* chunks before it (decode without the stream option).
ChunkTextAlone(decoder, bytes) == Decode(NewDecoder, bytes)

\* The text a chunk contributes: the decoder continues the previous chunk.
ChunkText(decoder, bytes) == Decode(decoder, bytes)

\* One iteration of the read loop on a chunk: [parser, calls, lines], lines
\* being the segments the loop over the lines went through.
ProcessChunk(p, bytes) ==
  With(ChunkText(p.decoder, bytes), LAMBDA dec :
    With(SplitLines(p.buffer \o dec.text), LAMBDA segments :
      With(ProcessLines(p.currentEvent, SubSeq(segments, 1, Len(segments) - 1), <<>>),
           LAMBDA r :
        [parser |-> [currentEvent |-> r.currentEvent,
                     buffer |-> CarryOver(segments),
                     decoder |-> dec.d],
         calls |-> r.calls,
         lines |-> SubSeq(segments, 1, Len(segments) - 1)])))

(***************************************************************************)
(* useChat: the callbacks sendMessage hands to streamChat                  *)
(***************************************************************************)

ErrorPrefix == S(<<"E", "r", "r", "o", "r", ":", " ">>)

Message(role, content) == [role |-> role, content |-> content]

OnStatus(h, statusMsg) == [h EXCEPT !.status = statusMsg]

OnRequirements(h, reqs, results) ==
  [h EXCEPT !.requirements = reqs, !.complianceResults = results]

\* An onToken that also ends the streaming state.
OnTokenEnding(h, token) ==
  With(h.contentRef \o JsToString(token), LAMBDA content :
    [h EXCEPT !.contentRef = content, !.streamingContent = content,
              !.isStreaming = FALSE])

OnToken(h, token) ==
  With(h.contentRef \o JsToString(token), LAMBDA content :
    [h EXCEPT !.contentRef = content, !.streamingContent = content])

\* onDone without the test of the accumulator: the message is always appended.
OnDoneUnguarded(h) ==
  [h EXCEPT !.messages = Append(@, Message("assistant", h.contentRef)),
            !.isStreaming = FALSE,
            !.streamingContent = <<>>,
            !.status = Str(<<>>)]

OnDone(h) ==
  [h EXCEPT !.messages = IF h.contentRef # <<>>
                           THEN Append(@, Message("assistant", h.contentRef)) ELSE @,
            !.isStreaming = FALSE,
            !.streamingContent = <<>>,
            !.status = Str(<<>>)]

\* An onError that commits the partial content as an assistant message.
OnErrorCommitting(h, error) ==
  [h EXCEPT !.messages = IF h.contentRef # <<>>
                           THEN Append(@, Message("assistant", h.contentRef)) ELSE @,
            !.status = Str(ErrorPrefix \o JsToString(error)),
            !.isStreaming = FALSE]

OnError(h, error) ==
  [h EXCEPT !.status = Str(ErrorPrefix \o JsToString(error)), !.isStreaming = FALSE]

ApplyCall(h, c) ==
  CASE c.cb = "onStatus" -> OnStatus(h, c.args[1])
    [] c.cb = "onRequirements" -> OnRequirements(h, c.args[1], c.args[2])
    [] c.cb = "onToken" -> OnToken(h, c.args[1])
    [] c.cb = "onDone" -> OnDone(h)
    [] c.cb = "onError" -> OnError(h, c.args[1])

RECURSIVE ApplyCalls(_, _)
ApplyCalls(h, calls) ==
  IF calls = <<>> THEN h ELSE ApplyCalls(ApplyCall(h, Head(calls)), Tail(calls))

(***************************************************************************)
(* Inputs: what the user types and what the backend answers                *)
(***************************************************************************)

\* The texts the user submits: two questions (one padded with blanks), a
\* blank text and the empty text.
Inputs ==
  { S(<<"h", "i">>), S(<<" ", "q", " ">>), S(<<" ", " ">>), <<>> }

\* A JSON string literal of a text without quotes, backslashes or controls.
Q(text) == <<34>> \o text \o <<34>>

\* {"key":json}
Obj1(key, json) == <<123>> \o Q(key) \o <<58>> \o json \o <<125>>

\* One event frame of the wire protocol: event line, data line, blank line.
Frame(name, data) == KwEvent \o name \o LF \o KwData \o data \o LF \o LF

TokenFrame(text) == Frame(NmToken, Obj1(NmToken, Q(text)))
StatusFrame(text) == Frame(NmStatus, Obj1(KeyMessage, Q(text)))
ErrorFrame(text) == Frame(NmError, Obj1(NmError, Q(text)))
DoneFrame == Frame(NmDone, <<123, 125>>)
\* {"requirements":["R1"],"compliance_results":[]}
RequirementsFrame ==
  Frame(NmRequirements,
        <<123>> \o Q(NmRequirements) \o <<58, 91>> \o Q(S(<<"R", "1">>)) \o <<93, 44>>
          \o Q(KeyComplianceResults) \o <<58, 91, 93, 125>>)

\* Response bodies of the turns of a conversation.
BodyAnswer ==
  StatusFrame(S(<<"s">>)) \o RequirementsFrame \o TokenFrame(S(<<"a">>))
    \o TokenFrame(S(<<"b">>)) \o DoneFrame
BodyErrorThenMore ==
  TokenFrame(S(<<"c">>)) \o ErrorFrame(S(<<"x">>)) \o TokenFrame(S(<<"d">>)) \o DoneFrame
BodyNoDone == TokenFrame(S(<<"e">>))
BodyEmptyAnswer == DoneFrame

TurnBodies == {BodyAnswer, BodyErrorThenMore, BodyNoDone, BodyEmptyAnswer}

\* Response bodies for one invocation of the parser.  UTF-8 of U+00E9 is
\* C3 A9, of U+20AC is E2 82 AC, of U+1F600 is F0 9F 98 80.
\* A token with two- and three-byte characters, "event: " and "data: " with
\* a blank, lines ended by CR LF; then done.
BodyUtf8 ==
  KwEvent \o <<32>> \o NmToken \o CR \o LF
    \o KwData \o <<32>> \o Obj1(NmToken, Q(<<195, 169, 226, 130, 172>>)) \o CR \o LF
    \o CR \o LF \o DoneFrame
\* A status, a token with a four-byte character, an error.
BodyStatusError ==
  StatusFrame(S(<<"o", "k">>)) \o TokenFrame(<<240, 159, 152, 128>>)
    \o ErrorFrame(S(<<"n", "o">>))
\* Lines the parser must survive: data before any event line, an unknown
\* event, a payload that is no JSON, an empty payload, a null payload, a
\* comment line; the last line lacks its line feed.
BodyOdd ==
  KwData \o Obj1(NmToken, Q(S(<<"z">>))) \o LF
    \o KwEvent \o S(<<"p", "i", "n", "g">>) \o LF \o KwData \o <<123, 125>> \o LF \o LF
    \o KwEvent \o NmToken \o LF
    \o KwData \o S(<<"{", "b", "a", "d">>) \o LF
    \o KwData \o LF
    \o KwData \o S(<<"n", "u", "l", "l">>) \o LF
    \o KwData \o Obj1(NmToken, Q(S(<<"k">>))) \o LF
    \o S(<<":", "c">>) \o LF \o LF
    \o KwEvent \o NmDone \o LF \o KwData \o <<123, 125>>

\* A done event whose data lines carry no payload and a payload that is no
\* JSON.
BodyBareDone ==
  KwEvent \o NmDone \o LF \o KwData \o LF \o KwData \o S(<<"n", "o">>) \o LF \o LF

\* A stream that goes on after its done event: a token, done, a further
\* token, done again.
BodyDoneTwice ==
  TokenFrame(S(<<"a">>)) \o DoneFrame \o TokenFrame(S(<<"b">>)) \o DoneFrame

\* One event line followed by three data lines, an empty line and a comment
\* line between them.
BodyOneEventLine ==
  KwEvent \o NmToken \o LF
    \o KwData \o Obj1(NmToken, Q(S(<<"m">>))) \o LF \o LF
    \o KwData \o Obj1(NmToken, Q(S(<<"n">>))) \o LF
    \o S(<<":", "c">>) \o LF
    \o KwData \o Obj1(NmToken, Q(S(<<"o">>))) \o LF

ParserBodies ==
  {BodyUtf8, BodyStatusError, BodyOdd, BodyBareDone, BodyDoneTwice, BodyOneEventLine,
   RequirementsFrame \o DoneFrame}

\* The number of sends of one conversation.
MaxTurns == 2

(***************************************************************************)
(* State                                                                   *)
(***************************************************************************)

VARIABLES
  messages,           \* useChat: the chat history
  isStreaming,        \* useChat
  streamingContent,   \* useChat: text
  status,             \* useChat: a JavaScript value (a string when set by the hook)
  requirements,       \* useChat: a JavaScript value
  complianceResults,  \* useChat: a JavaScript value
  contentRef,         \* useChat: contentRef.current, text
  streams,            \* the invocations of streamChat, in the order of the sends
  chunking,           \* how the network cuts a body: "fragmenting" | "flushed"
  budget,             \* the sends left to the user
  selectedCompliance, \* App: the regulation documents selected, document ids
  selectedInternal,   \* App: the company documents selected, document ids
  complianceDocs,     \* DocumentPanel: the regulation documents listed
  internalDocs,       \* DocumentPanel: the company documents listed
  isLoading,          \* DocumentPanel
  uploadStatus,       \* DocumentPanel: text
  activeTab,          \* DocumentPanel: "compliance" | "internal"
  backend,            \* the documents the backend stores, by document type
  mountRefresh,       \* whether the refreshDocs of the mount effect is in flight
  deletes             \* the invocations of handleDelete, in the order of the clicks

hookVars == <<messages, isStreaming, streamingContent, status, requirements,
              complianceResults, contentRef>>
chatVars == <<messages, isStreaming, streamingContent, status, requirements,
              complianceResults, contentRef, streams, chunking, budget>>
docVars == <<selectedCompliance, selectedInternal, complianceDocs, internalDocs,
             isLoading, uploadStatus, activeTab, backend, mountRefresh, deletes>>
vars == <<chatVars, docVars>>

\* The state of the hook as one record, for the callbacks.
Hook ==
  [messages |-> messages, isStreaming |-> isStreaming,
   streamingContent |-> streamingContent, status |-> status,
   requirements |-> requirements, complianceResults |-> complianceResults,
   contentRef |-> contentRef]

SetHook(h) ==
  /\ messages' = h.messages
  /\ isStreaming' = h.isStreaming
  /\ streamingContent' = h.streamingContent
  /\ status' = h.status
  /\ requirements' = h.requirements
  /\ complianceResults' = h.complianceResults
  /\ contentRef' = h.contentRef

\* useState / useRef initial values.
HookInit ==
  /\ messages = <<>>
  /\ isStreaming = FALSE
  /\ streamingContent = <<>>
  /\ status = Str(<<>>)
  /\ requirements = Arr(<<>>)
  /\ complianceResults = Arr(<<>>)
  /\ contentRef = <<>>

\* The documents of the backend: two regulations and a company document.
DocR1 == S(<<"r", "1">>)
DocR2 == S(<<"r", "2">>)
DocD1 == S(<<"d", "1">>)

\* useState initial values of App and DocumentPanel; the effect that runs
\* on mount has called refreshDocs.
DocInit ==
  /\ selectedCompliance = <<>>
  /\ selectedInternal = <<>>
  /\ complianceDocs = <<>>
  /\ internalDocs = <<>>
  /\ isLoading = TRUE
  /\ uploadStatus = <<>>
  /\ activeTab = "compliance"
  /\ backend = [regulation |-> <<DocR1, DocR2>>, company_doc |-> <<DocD1>>]
  /\ mountRefresh = TRUE
  /\ deletes = <<>>

\* A conversation: the frames the backend flushes arrive whole.
Init ==
  /\ HookInit
  /\ DocInit
  /\ streams = <<>>
  /\ chunking = "flushed"
  /\ budget = MaxTurns

\* One invocation of the parser: the network cuts the body anywhere.
InitParser ==
  /\ HookInit
  /\ DocInit
  /\ streams = <<>>
  /\ chunking = "fragmenting"
  /\ budget = 1

(***************************************************************************)
(* sendMessage, clearChat (useChat) and the handlers of ChatPanel          *)
(***************************************************************************)

\* streamChat up to its first await: the request is issued.  A stream holds
\* the phase of the invocation, the request sent, the response body and how
\* much of it was read, the parser's locals, and three records of the run:
\* the callbacks dispatched so far, the lines the loop over the lines went
\* through so far, and whether a chunk ended inside a character.
OpenStream(message, history) ==
  [phase |-> "fetching",
   request |-> [message |-> message, chat_history |-> history],
   body |-> <<>>, pos |-> 0, parser |-> NewParser, calls |-> <<>>,
   lines |-> <<>>, cutInChar |-> FALSE]

\* A send that starts history over with its user message.
SendMessageFresh(message) ==
  /\ messages' = <<Message("user", message)>>
  /\ isStreaming' = TRUE
  /\ streamingContent' = <<>>
  /\ status' = Str(<<>>)
  /\ requirements' = Arr(<<>>)
  /\ complianceResults' = Arr(<<>>)
  /\ contentRef' = <<>>
  /\ streams' = Append(streams, OpenStream(message, messages))

\* A send that leaves the accumulator and the requirements of the previous
\* turn in place.
SendMessageKeeping(message) ==
  /\ messages' = Append(messages, Message("user", message))
  /\ isStreaming' = TRUE
  /\ streamingContent' = <<>>
  /\ status' = Str(<<>>)
  /\ UNCHANGED <<requirements, complianceResults, contentRef>>
  /\ streams' = Append(streams, OpenStream(message, messages))

\* A send whose request carries the history with the new user message in it.
SendMessageIncluding(message) ==
  /\ messages' = Append(messages, Message("user", message))
  /\ isStreaming' = TRUE
  /\ streamingContent' = <<>>
  /\ status' = Str(<<>>)
  /\ requirements' = Arr(<<>>)
  /\ complianceResults' = Arr(<<>>)
  /\ contentRef' = <<>>
  /\ streams' = Append(streams, OpenStream(message, messages'))

\* sendMessage up to the await of streamChat.
SendMessage(message) ==
  /\ messages' = Append(messages, Message("user", message))
  /\ isStreaming' = TRUE
  /\ streamingContent' = <<>>
  /\ status' = Str(<<>>)
  /\ requirements' = Arr(<<>>)
  /\ complianceResults' = Arr(<<>>)
  /\ contentRef' = <<>>
  /\ streams' = Append(streams, OpenStream(message, messages))

\* A call of the sendMessage the hook returns, by any caller.
CallSendMessage(message) == SendMessage(message) /\ UNCHANGED <<chunking, budget, docVars>>

\* A test that rejects only the empty text, not one made of blanks.
SendRejectedUntrimmed(input) == input = <<>> \/ isStreaming

\* Whether handleSend returns without sending.
SendRejected(input) == Trim(input) = <<>> \/ isStreaming

\* handleSend with the text of the input box.
HandleSend(input) ==
  /\ budget > 0
  /\ UNCHANGED <<chunking, docVars>>
  /\ IF SendRejected(input)
       THEN UNCHANGED <<hookVars, streams, budget>>
       ELSE SendMessage(Trim(input)) /\ budget' = budget - 1

\* clearChat
ClearChat ==
  /\ messages' = <<>>
  /\ streamingContent' = <<>>
  /\ status' = Str(<<>>)
  /\ requirements' = Arr(<<>>)
  /\ complianceResults' = Arr(<<>>)
  /\ UNCHANGED <<isStreaming, contentRef, streams, chunking, budget, docVars>>

\* Whether the Clear button is disabled.
ClearDisabled == isStreaming

\* A click on the Clear button.
ClickClear == ~ClearDisabled /\ ClearChat

\* Whether a JavaScript value counts as true in a condition.
Truthy(val) ==
  CASE val.t \in {"undefined", "null"} -> FALSE
    [] val.t = "boolean" -> val.v[1]
    [] val.t = "number" -> val.v[1] # 0
    [] val.t = "string" -> val.v # <<>>
    [] OTHER -> TRUE

\* Whether the status area is rendered: {isStreaming && status && (...)}.
StatusVisible == isStreaming /\ Truthy(status)

(***************************************************************************)
(* streamChat after the request, and the catch of sendMessage              *)
(***************************************************************************)

FailedToFetch == S(<<"F", "a", "i", "l", "e", "d">>)
RequestFailed == S(<<"C", "h", "a", "t", " ", "r", "e", "q", "u", "e", "s", "t", " ",
                     "f", "a", "i", "l", "e", "d", ":", " ">>)
NoResponseBody == S(<<"N", "o", " ", "r", "e", "s", "p", "o", "n", "s", "e", " ",
                      "b", "o", "d", "y">>)
StatusTexts == { S(<<"B", "a", "d">>) }
ReadFailed == S(<<"r", "e", "s", "e", "t">>)

\* A catch block that takes the message of the failed turn back out of
\* history.
CatchRollingBack(i, errorMessage) ==
  /\ status' = Str(ErrorPrefix \o errorMessage)
  /\ isStreaming' = FALSE
  /\ messages' = SubSeq(messages, 1, Len(messages) - 1)
  /\ streams' = [streams EXCEPT ![i].phase = "thrown"]
  /\ UNCHANGED <<streamingContent, requirements, complianceResults,
                 contentRef, chunking, budget, docVars>>

\* The catch block of sendMessage, for an Error with this message.
Catch(i, errorMessage) ==
  /\ status' = Str(ErrorPrefix \o errorMessage)
  /\ isStreaming' = FALSE
  /\ streams' = [streams EXCEPT ![i].phase = "thrown"]
  /\ UNCHANGED <<messages, streamingContent, requirements, complianceResults,
                 contentRef, chunking, budget, docVars>>

\* fetch rejects.
FetchRejects(i) ==
  /\ streams[i].phase = "fetching"
  /\ Catch(i, FailedToFetch)

\* The response has a non-success status.
ResponseNotOk(i) ==
  /\ streams[i].phase = "fetching"
  /\ \E statusText \in StatusTexts : Catch(i, RequestFailed \o statusText)

\* The response has no body.
NoBody(i) ==
  /\ streams[i].phase = "fetching"
  /\ Catch(i, NoResponseBody)

\* The bodies the backend may answer with.
Bodies == IF chunking = "flushed" THEN TurnBodies ELSE ParserBodies

\* The response arrives with success status and a body: the read loop starts.
ResponseOk(i) ==
  /\ streams[i].phase = "fetching"
  /\ \E body \in Bodies : streams' = [streams EXCEPT ![i].phase = "reading", ![i].body = body]
  /\ UNCHANGED <<hookVars, chunking, budget, docVars>>

\* Where the next chunk of stream st may end: anywhere when the network
\* fragments; after the blank line that ends an event frame (or at the end
\* of the body) when the frames the backend flushes arrive whole.
ChunkEnds(st) ==
  { n \in (st.pos + 1)..Len(st.body) :
      \/ chunking = "fragmenting"
      \/ n = Len(st.body)
      \/ n >= 2 /\ st.body[n] = 10 /\ st.body[n - 1] = 10 }

\* reader.read() yields a chunk: one iteration of the read loop.
ReadChunk(i) ==
  /\ streams[i].phase = "reading"
  /\ \E n \in ChunkEnds(streams[i]) :
       \E r \in {ProcessChunk(streams[i].parser,
                               SubSeq(streams[i].body, streams[i].pos + 1, n))} :
         /\ streams' = [streams EXCEPT
                         ![i].pos = n, ![i].parser = r.parser,
                         ![i].calls = @ \o r.calls,
                         ![i].lines = @ \o r.lines,
                         ![i].cutInChar = @ \/ r.parser.decoder.needed > 0]
         /\ \E h \in {ApplyCalls(Hook, r.calls)} : SetHook(h)
  /\ UNCHANGED <<chunking, budget, docVars>>

\* A completion that is a normal return only after a done or an error event,
\* and a throw otherwise.
ReadDoneStrict(i) ==
  /\ streams[i].phase = "reading"
  /\ streams[i].pos = Len(streams[i].body)
  /\ IF \E k \in DOMAIN streams[i].calls : streams[i].calls[k].cb \in {"onDone", "onError"}
       THEN /\ streams' = [streams EXCEPT ![i].phase = "returned"]
            /\ UNCHANGED <<hookVars, chunking, budget, docVars>>
       ELSE Catch(i, ReadFailed)

\* A completion that first handles the carry-over as one more line.
ReadDoneFlushing(i) ==
  /\ streams[i].phase = "reading"
  /\ streams[i].pos = Len(streams[i].body)
  /\ \E r \in {ProcessLine(streams[i].parser.currentEvent, streams[i].parser.buffer)} :
       /\ streams' = [streams EXCEPT ![i].phase = "returned",
                                     ![i].calls = @ \o r.calls,
                                     ![i].lines = Append(@, streams[i].parser.buffer)]
       /\ \E h \in {ApplyCalls(Hook, r.calls)} : SetHook(h)
  /\ UNCHANGED <<chunking, budget, docVars>>

\* reader.read() reports completion: streamChat returns.
ReadDone(i) ==
  /\ streams[i].phase = "reading"
  /\ streams[i].pos = Len(streams[i].body)
  /\ streams' = [streams EXCEPT ![i].phase = "returned"]
  /\ UNCHANGED <<hookVars, chunking, budget, docVars>>

\* A read failure answered by issuing the request again.
ReadRejectsRetrying(i) ==
  /\ streams[i].phase = "reading"
  /\ streams' = [streams EXCEPT ![i].phase = "fetching", ![i].body = <<>>,
                                ![i].pos = 0, ![i].parser = NewParser]
  /\ UNCHANGED <<hookVars, chunking, budget, docVars>>

\* reader.read() rejects: streamChat throws.
ReadRejects(i) ==
  /\ streams[i].phase = "reading"
  /\ Catch(i, ReadFailed)

StreamStep ==
  \E i \in DOMAIN streams :
    \/ FetchRejects(i)
    \/ ResponseNotOk(i)
    \/ NoBody(i)
    \/ ResponseOk(i)
    \/ ReadChunk(i)
    \/ ReadDone(i)
    \/ ReadRejects(i)

Next ==
  \/ \E input \in Inputs : HandleSend(input)
  \/ ClickClear
  \/ StreamStep

Spec == Init /\ [][Next]_vars

ParserSpec == InitParser /\ [][Next]_vars

(***************************************************************************)
(* DocumentPanel: the document lists, the selections and handleDelete      *)
(***************************************************************************)

\* The clicks on DEL of one session.
MaxDeletes == 2

\* The session of the document panel: no chat turn is sent.
InitDocs ==
  /\ HookInit
  /\ DocInit
  /\ streams = <<>>
  /\ chunking = "flushed"
  /\ budget = 0

\* Array.prototype.filter(id => id !== docId)
Without(ids, docId) == SelectSeq(ids, LAMBDA id : id # docId)

\* Array.prototype.includes
Includes(ids, docId) == \E k \in DOMAIN ids : ids[k] = docId

\* The list and the document type of the active tab.
CurrentDocs == IF activeTab = "compliance" THEN complianceDocs ELSE internalDocs
CurrentType == IF activeTab = "compliance" THEN "regulation" ELSE "company_doc"

\* The rows rendered, each with its checkbox and its DEL button: none while
\* the list is loading.
Rows == IF isLoading THEN {} ELSE {CurrentDocs[k] : k \in DOMAIN CurrentDocs}

\* The state updates of refreshDocs once both listDocuments calls have
\* settled: the lists of the backend when both succeeded, nothing when one
\* failed, and isLoading false in either case.
RefreshDocs(ok) ==
  /\ complianceDocs' = IF ok THEN backend.regulation ELSE complianceDocs
  /\ internalDocs' = IF ok THEN backend.company_doc ELSE internalDocs
  /\ isLoading' = FALSE

\* The refreshDocs of the mount effect settles.
MountRefreshSettles ==
  /\ mountRefresh
  /\ mountRefresh' = FALSE
  /\ \E ok \in BOOLEAN : RefreshDocs(ok)
  /\ UNCHANGED <<chatVars, selectedCompliance, selectedInternal, uploadStatus,
                 activeTab, backend, deletes>>

\* A click on one of the two tabs.
SetActiveTab(tab) ==
  /\ activeTab' = tab
  /\ UNCHANGED <<chatVars, selectedCompliance, selectedInternal, complianceDocs,
                 internalDocs, isLoading, uploadStatus, backend, mountRefresh, deletes>>

\* toggleSelection, from the checkbox of a row.
ToggleSelection(docId, type) ==
  /\ docId \in Rows
  /\ type = CurrentType
  /\ IF type = "regulation"
       THEN /\ selectedCompliance' =
                 IF Includes(selectedCompliance, docId)
                   THEN Without(selectedCompliance, docId)
                   ELSE Append(selectedCompliance, docId)
            /\ UNCHANGED selectedInternal
       ELSE /\ selectedInternal' =
                 IF Includes(selectedInternal, docId)
                   THEN Without(selectedInternal, docId)
                   ELSE Append(selectedInternal, docId)
            /\ UNCHANGED selectedCompliance
  /\ UNCHANGED <<chatVars, complianceDocs, internalDocs, isLoading, uploadStatus,
                 activeTab, backend, mountRefresh, deletes>>

\* handleDelete up to the await of deleteDocument, from the DEL button of a
\* row: the request is issued.  An invocation holds its arguments, its
\* position and the two selections of the render whose handler was clicked.
HandleDelete(docId, type) ==
  /\ docId \in Rows
  /\ type = CurrentType
  /\ Len(deletes) < MaxDeletes
  /\ deletes' = Append(deletes,
                       [docId |-> docId, type |-> type, phase |-> "deleting",
                        selectedCompliance |-> selectedCompliance,
                        selectedInternal |-> selectedInternal])
  /\ UNCHANGED <<chatVars, selectedCompliance, selectedInternal, complianceDocs,
                 internalDocs, isLoading, uploadStatus, activeTab, backend, mountRefresh>>

DeleteFailed == S(<<"D", "e", "l", "e", "t", "e", " ", "f", "a", "i", "l", "e", "d">>)

\* The text shown after a delete.
DeletedStatus(docId) ==
  S(<<"S", "c", "r", "o", "l", "l", " ", "'">>) \o docId
    \o S(<<"'", " ", "h", "a", "s", " ", "b", "e", "e", "n", " ",
           "b", "u", "r", "n", "e", "d">>)

\* deleteDocument throws: the catch block of handleDelete.
DeleteRejects(i) ==
  /\ deletes[i].phase = "deleting"
  /\ deletes' = [deletes EXCEPT ![i].phase = "failed"]
  /\ uploadStatus' = ErrorPrefix \o DeleteFailed
  /\ UNCHANGED <<chatVars, selectedCompliance, selectedInternal, complianceDocs,
                 internalDocs, isLoading, activeTab, backend, mountRefresh>>

\* deleteDocument returns: the backend has removed the document, and
\* handleDelete calls refreshDocs.
DeleteResolves(i) ==
  /\ deletes[i].phase = "deleting"
  /\ Includes(backend[deletes[i].type], deletes[i].docId)
  /\ backend' = [backend EXCEPT ![deletes[i].type] = Without(@, deletes[i].docId)]
  /\ deletes' = [deletes EXCEPT ![i].phase = "refreshing"]
  /\ UNCHANGED <<chatVars, selectedCompliance, selectedInternal, complianceDocs,
                 internalDocs, isLoading, uploadStatus, activeTab, mountRefresh>>

\* The refreshDocs of handleDelete settles and handleDelete runs to its end:
\* the selection of the document's type is set from the selection the
\* handler was created with.
DeleteSettles(i) ==
  /\ deletes[i].phase = "refreshing"
  /\ \E ok \in BOOLEAN : RefreshDocs(ok)
  /\ IF deletes[i].type = "regulation"
       THEN /\ selectedCompliance' = Without(deletes[i].selectedCompliance, deletes[i].docId)
            /\ UNCHANGED selectedInternal
       ELSE /\ selectedInternal' = Without(deletes[i].selectedInternal, deletes[i].docId)
            /\ UNCHANGED selectedCompliance
  /\ uploadStatus' = DeletedStatus(deletes[i].docId)
  /\ deletes' = [deletes EXCEPT ![i].phase = "finished"]
  /\ UNCHANGED <<chatVars, activeTab, backend, mountRefresh>>

DeleteStep ==
  \E i \in DOMAIN deletes :
    \/ DeleteRejects(i)
    \/ DeleteResolves(i)
    \/ DeleteSettles(i)

NextDocs ==
  \/ MountRefreshSettles
  \/ \E tab \in {"compliance", "internal"} : SetActiveTab(tab)
  \/ \E docId \in {DocR1, DocR2, DocD1}, type \in {"regulation", "company_doc"} :
       ToggleSelection(docId, type)
  \/ \E docId \in {DocR1, DocR2, DocD1}, type \in {"regulation", "company_doc"} :
       HandleDelete(docId, type)
  \/ DeleteStep

DocSpec == InitDocs /\ [][NextDocs]_vars

(***************************************************************************)
(* Properties                                                              *)
(***************************************************************************)

\* The turn started last.
Latest == Len(streams)

\* The callbacks named cb among calls.
Fired(calls, cb) == \E k \in DOMAIN calls : calls[k].cb = cb

\* The concatenation of the fragments of the onToken calls among calls.
RECURSIVE TokenText(_)
TokenText(calls) ==
  IF calls = <<>> THEN <<>>
  ELSE (IF Head(calls).cb = "onToken" THEN JsToString(Head(calls).args[1]) ELSE <<>>)
         \o TokenText(Tail(calls))

\* A request is outstanding while its response has not arrived or bytes of
\* its body are still to be read.
Outstanding(st) ==
  \/ st.phase = "fetching"
  \/ st.phase = "reading" /\ st.pos < Len(st.body)

\* History and every transient field of the turn are empty.
AllEmpty ==
  /\ messages = <<>>
  /\ contentRef = <<>>
  /\ streamingContent = <<>>
  /\ status = Str(<<>>)
  /\ requirements = Arr(<<>>)
  /\ complianceResults = Arr(<<>>)

\* C1: however the bytes of a response body are cut into chunks, at any
\* byte offset and also inside a multi-byte character, the callbacks
\* dispatched up to any point of the body, with their arguments, are those
\* dispatched when the same bytes arrive as one chunk.
C1_ChunkInvariance ==
  \A i \in DOMAIN streams :
    streams[i].phase \in {"reading", "returned"} =>
      streams[i].calls =
        ProcessChunk(NewParser, SubSeq(streams[i].body, 1, streams[i].pos)).calls

\* C1 witness: a body read to its end in chunks of which one ended inside a
\* multi-byte character, and whose token was dispatched.
C1_Witness ==
  \E i \in DOMAIN streams :
    /\ streams[i].phase = "returned"
    /\ streams[i].cutInChar
    /\ Fired(streams[i].calls, "onToken")
    /\ Fired(streams[i].calls, "onDone")

\* C2: whenever a done event of a stream commits an assistant message, the
\* content of the message is the concatenation, in arrival order, of the
\* fragments of the token events that stream dispatched before the done.
C2_CommitIsConcatenation ==
  [][\A i \in DOMAIN streams :
       (streams'[i].calls # streams[i].calls /\ Len(messages') > Len(messages)) =>
         \E k \in (Len(streams[i].calls) + 1)..Len(streams'[i].calls) :
           /\ streams'[i].calls[k].cb = "onDone"
           /\ messages'[Len(messages')].content =
                TokenText(SubSeq(streams'[i].calls, 1, k - 1))]_vars

\* C3: once onError has fired in the latest turn, history ends with that
\* turn's user message (or was cleared): no assistant message follows it,
\* whatever the stream delivers afterwards.
C3_NoAssistantAfterError ==
  (streams # <<>> /\ Fired(streams[Latest].calls, "onError")) =>
    (messages = <<>> \/ messages[Len(messages)].role = "user")

\* C4: when the latest turn has ended, by streamChat returning or throwing,
\* the hook is Idle again.
C4_EndedTurnIsIdle ==
  (streams # <<>> /\ streams[Latest].phase \in {"returned", "thrown"}) => ~isStreaming

\* C5: when the stream of the latest turn has ended without a done and
\* without an error event, no assistant message was committed and the
\* partial content (accumulator and streamingContent) is discarded.
C5_IncompleteTurnDiscarded ==
  (/\ streams # <<>>
   /\ streams[Latest].phase = "returned"
   /\ ~Fired(streams[Latest].calls, "onDone")
   /\ ~Fired(streams[Latest].calls, "onError")) =>
    /\ contentRef = <<>>
    /\ streamingContent = <<>>
    /\ (messages = <<>> \/ messages[Len(messages)].role = "user")

\* C6: while isStreaming is true a submit changes nothing and issues no
\* request, be it through handleSend or through sendMessage itself.
C6_SubmitWhileStreamingIsNoOp ==
  isStreaming =>
    ~ENABLED (/\ \E input \in Inputs : HandleSend(input) \/ CallSendMessage(input)
              /\ <<hookVars, streams>>' # <<hookVars, streams>>)

\* C7: at most one request is outstanding.
C7_OneOutstandingRequest ==
  Cardinality({i \in DOMAIN streams : Outstanding(streams[i])}) <= 1

\* C8: every event dispatched belongs to the turn started last: no stream
\* of an earlier turn dispatches a callback once a new turn has started.
C8_NoInterleaving ==
  [][\A i \in DOMAIN streams :
       streams'[i].calls # streams[i].calls => i = Len(streams)]_vars

\* C9: when the hook is Idle no request is outstanding: none awaits its
\* response and no read loop has events still to dispatch.
C9_IdleIsQuiet ==
  ~isStreaming => \A i \in DOMAIN streams : ~Outstanding(streams[i])

\* C10: clearChat leaves history and every transient field empty, the
\* accumulated content included, and they stay empty until the next send.
C10_ClearEmptiesAll ==
  [][/\ ClickClear => AllEmpty'
     /\ (AllEmpty /\ Len(streams') = Len(streams)) => AllEmpty']_vars

\* The callbacks stream i dispatches in the step at hand.
NewCalls(i) ==
  SubSeq(streams'[i].calls, Len(streams[i].calls) + 1, Len(streams'[i].calls))

\* C11: a done event dispatched while the accumulator is empty, no token
\* event before it in its chunk, appends nothing to history; and in a
\* conversation of one turn whose stream dispatched done and no token,
\* history holds at most the user message of the turn.
C11_EmptyDoneAppendsNothing ==
  [][/\ \A i \in DOMAIN streams :
          (/\ contentRef = <<>>
           /\ Fired(NewCalls(i), "onDone")
           /\ ~Fired(NewCalls(i), "onToken")) => messages' = messages
     /\ (/\ Len(streams') = 1
         /\ Fired(streams'[1].calls, "onDone")
         /\ ~Fired(streams'[1].calls, "onToken")) =>
          (messages' = <<>> \/ messages' = <<Message("user", streams'[1].request.message)>>)]_vars

\* C11 witness: a turn whose stream was read to its end with a done and no
\* token; history is the user message alone.
C11_Witness ==
  /\ Len(streams) = 1
  /\ streams[1].phase = "returned"
  /\ Fired(streams[1].calls, "onDone")
  /\ ~Fired(streams[1].calls, "onToken")
  /\ messages = <<Message("user", streams[1].request.message)>>
  /\ ~isStreaming

\* The callbacks of a stream that is status, requirements, tokens, done.
IsAnswer(calls) ==
  /\ Len(calls) >= 4
  /\ calls[1].cb = "onStatus"
  /\ calls[2].cb = "onRequirements"
  /\ \A k \in 3..(Len(calls) - 1) : calls[k].cb = "onToken"
  /\ calls[Len(calls)].cb = "onDone"

\* C12: once the stream of the latest turn has delivered status,
\* requirements, tokens, done, and until the next send or clearChat,
\* history is the history before the turn followed by the user message and
\* one assistant message with the concatenated tokens, and requirements and
\* complianceResults are the payload of the requirements event.
C12_AnswerTurn ==
  (/\ streams # <<>>
   /\ IsAnswer(streams[Latest].calls)
   /\ messages # <<>>) =>
    /\ messages = streams[Latest].request.chat_history
                    \o << Message("user", streams[Latest].request.message),
                          Message("assistant", TokenText(streams[Latest].calls)) >>
    /\ requirements = streams[Latest].calls[2].args[1]
    /\ complianceResults = streams[Latest].calls[2].args[2]

\* The argument of the last call of callback cb among calls.
LastArg(calls, cb) ==
  calls[CHOOSE k \in DOMAIN calls :
          /\ calls[k].cb = cb
          /\ \A j \in DOMAIN calls : calls[j].cb = cb => j <= k].args[1]

\* C13: once the stream of the latest turn has delivered an error event with
\* message e, and until the next send or clearChat, history ends with the
\* user message of the turn and status is the error prefix followed by e.
C13_ErrorTurn ==
  (/\ streams # <<>>
   /\ Fired(streams[Latest].calls, "onError")
   /\ messages # <<>>) =>
    /\ messages[Len(messages)] = Message("user", streams[Latest].request.message)
    /\ status = Str(ErrorPrefix \o JsToString(LastArg(streams[Latest].calls, "onError")))

\* C14: when the stream of the latest turn has delivered an error event and
\* has been read to its end, status holding the error-prefixed message, the
\* status area shows it.
C14_ErrorIsShown ==
  (/\ streams # <<>>
   /\ Fired(streams[Latest].calls, "onError")
   /\ streams[Latest].phase = "returned"
   /\ ~isStreaming
   /\ status = Str(ErrorPrefix \o JsToString(LastArg(streams[Latest].calls, "onError")))) =>
    StatusVisible

\* The complete lines of the text of these bytes.
CompleteLines(bytes) ==
  With(SplitLines(Decode(NewDecoder, bytes).text), LAMBDA segments :
    SubSeq(segments, 1, Len(segments) - 1))

\* A data line whose payload is not empty and is no JSON.
IsMalformedData(line) ==
  /\ ~StartsWith(line, KwEvent)
  /\ StartsWith(line, KwData)
  /\ Trim(Slice(line, 5)) # <<>>
  /\ ~JsonParse(Trim(Slice(line, 5))).ok

\* C15: a data line whose payload is no JSON dispatches nothing and stops
\* nothing: at every point of a body the callbacks dispatched and the
\* current event name are those of the same lines without the malformed
\* ones.
C15_MalformedLineSkipped ==
  \A i \in DOMAIN streams :
    streams[i].phase \in {"reading", "returned"} =>
      With(CompleteLines(SubSeq(streams[i].body, 1, streams[i].pos)), LAMBDA lines :
        With(ProcessLines(<<>>, SelectSeq(lines, LAMBDA l : ~IsMalformedData(l)), <<>>),
             LAMBDA r :
          /\ streams[i].calls = r.calls
          /\ streams[i].parser.currentEvent = r.currentEvent))

\* C15 witness: a body with a malformed data line was read to its end, and
\* a token of a later line was dispatched.
C15_Witness ==
  \E i \in DOMAIN streams :
    /\ streams[i].phase = "returned"
    /\ \E k \in DOMAIN CompleteLines(streams[i].body) :
         IsMalformedData(CompleteLines(streams[i].body)[k])
    /\ Fired(streams[i].calls, "onToken")

\* The event names the switch knows.
EventNames == {NmStatus, NmRequirements, NmToken, NmDone, NmError}

\* The event name in force when line k of lines is processed.
EventAt(lines, k) == ProcessLines(<<>>, SubSeq(lines, 1, k - 1), <<>>).currentEvent

\* Line k is a data line received under an event name the switch does not
\* know (the empty name of a stream that has sent no event line included).
IsUnrouted(lines, k) ==
  /\ ~StartsWith(lines[k], KwEvent)
  /\ StartsWith(lines[k], KwData)
  /\ EventAt(lines, k) \notin EventNames

\* The lines whose indices are in keep, in their order.
Pick(lines, keep) ==
  [j \in 1..Cardinality(keep) |->
     lines[CHOOSE k \in keep : Cardinality({x \in keep : x <= k}) = j]]

\* C16: a data line received under an event name that is none of status,
\* requirements, token, done, error dispatches nothing and the parser goes
\* on: at every point of a body the callbacks dispatched and the current
\* event name are those of the same lines without such data lines.
C16_UnknownEventDropped ==
  \A i \in DOMAIN streams :
    streams[i].phase \in {"reading", "returned"} =>
      With(CompleteLines(SubSeq(streams[i].body, 1, streams[i].pos)), LAMBDA lines :
        With(ProcessLines(<<>>,
                          Pick(lines, {k \in DOMAIN lines : ~IsUnrouted(lines, k)}),
                          <<>>),
             LAMBDA r :
          /\ streams[i].calls = r.calls
          /\ streams[i].parser.currentEvent = r.currentEvent))

\* C16 witness: a body read to its end that holds a data line with a JSON
\* payload before any event line and one under an unknown event name, and
\* whose later token was dispatched.
C16_Witness ==
  \E i \in DOMAIN streams :
    /\ streams[i].phase = "returned"
    /\ \E k, n \in DOMAIN CompleteLines(streams[i].body) :
         /\ IsUnrouted(CompleteLines(streams[i].body), k)
         /\ EventAt(CompleteLines(streams[i].body), k) = <<>>
         /\ JsonParse(Trim(Slice(CompleteLines(streams[i].body)[k], 5))).ok
         /\ IsUnrouted(CompleteLines(streams[i].body), n)
         /\ EventAt(CompleteLines(streams[i].body), n) # <<>>
    /\ Fired(streams[i].calls, "onToken")

\* C17: every data line received under the event name done invokes onDone,
\* whatever its payload: at every point of a body as many onDone calls were
\* dispatched as data lines were received under done.
C17_DoneWithAnyPayload ==
  \A i \in DOMAIN streams :
    streams[i].phase \in {"reading", "returned"} =>
      With(CompleteLines(SubSeq(streams[i].body, 1, streams[i].pos)), LAMBDA lines :
        Cardinality({k \in DOMAIN streams[i].calls : streams[i].calls[k].cb = "onDone"})
          = Cardinality({k \in DOMAIN lines :
                           /\ ~StartsWith(lines[k], KwEvent)
                           /\ StartsWith(lines[k], KwData)
                           /\ EventAt(lines, k) = NmDone}))

\* The name given by the last event line before line k, empty if none.
LastEventName(lines, k) ==
  IF \E j \in 1..(k - 1) : StartsWith(lines[j], KwEvent)
    THEN Trim(Slice(lines[CHOOSE j \in 1..(k - 1) :
                            /\ StartsWith(lines[j], KwEvent)
                            /\ \A n \in (j + 1)..(k - 1) : ~StartsWith(lines[n], KwEvent)],
                    6))
    ELSE <<>>

\* The callbacks of line k of lines, taken on its own.
LineCalls(lines, k) ==
  IF ~StartsWith(lines[k], KwEvent) /\ StartsWith(lines[k], KwData)
    THEN DataLine(LastEventName(lines, k), lines[k])
    ELSE <<>>

\* C18: the callbacks a stream has dispatched are those of its data lines in
\* the order of the lines in the byte stream; and in a conversation of one
\* turn the accumulator is the fragments of its token events in that order.
C18_DispatchInLineOrder ==
  /\ \A i \in DOMAIN streams :
       streams[i].phase \in {"reading", "returned"} =>
         With(CompleteLines(SubSeq(streams[i].body, 1, streams[i].pos)), LAMBDA lines :
           streams[i].calls = Flatten([k \in DOMAIN lines |-> LineCalls(lines, k)]))
  /\ Len(streams) = 1 => contentRef = TokenText(streams[1].calls)

\* C18 witness: two token events of one stream dispatched in the order of
\* their lines, the accumulator holding both fragments.
C18_Witness ==
  /\ Len(streams) = 1
  /\ \E k \in DOMAIN streams[1].calls :
       /\ k < Len(streams[1].calls)
       /\ streams[1].calls[k] = Call("onToken", <<Str(S(<<"a">>))>>)
       /\ streams[1].calls[k + 1] = Call("onToken", <<Str(S(<<"b">>))>>)
  /\ contentRef = S(<<"a", "b">>)

\* C19: whenever a body has been read to its last byte, whatever callbacks
\* were dispatched, the completion reported by the reader makes streamChat
\* return normally; and the return changes nothing in the hook.
C19_ReturnsOnCompletion ==
  [][\A i \in DOMAIN streams :
       /\ (streams[i].phase = "reading" /\ streams[i].pos = Len(streams[i].body)) =>
            ENABLED (ReadDone(i) /\ streams'[i].phase = "returned")
       /\ (streams[i].phase = "reading" /\ streams'[i].phase = "returned") =>
            /\ streams[i].pos = Len(streams[i].body)
            /\ hookVars' = hookVars]_vars

\* C19 witness: one stream returned after a done event, another returned
\* with neither done nor error dispatched.
C19_Witness ==
  /\ Len(streams) = 2
  /\ streams[1].phase = "returned"
  /\ Fired(streams[1].calls, "onDone")
  /\ streams[2].phase = "returned"
  /\ ~Fired(streams[2].calls, "onDone")
  /\ ~Fired(streams[2].calls, "onError")

\* The messages of the failures of opening a request.
OpenFailures ==
  {FailedToFetch, NoResponseBody} \cup {RequestFailed \o t : t \in StatusTexts}

\* C20: when the request of the latest turn failed to open, and until the
\* next send or clearChat, no callback of its stream was invoked, status is
\* the error prefix followed by the failure's message, isStreaming is
\* false, history ends with the user message of the turn, and no partial
\* content is held.
C20_OpenFailureEndsTurn ==
  (/\ streams # <<>>
   /\ streams[Latest].phase = "thrown"
   /\ streams[Latest].body = <<>>
   /\ messages # <<>>) =>
    /\ streams[Latest].calls = <<>>
    /\ status \in {Str(ErrorPrefix \o m) : m \in OpenFailures}
    /\ ~isStreaming
    /\ messages[Len(messages)] = Message("user", streams[Latest].request.message)
    /\ contentRef = <<>>
    /\ streamingContent = <<>>

\* Sequence a is an initial part of sequence b.
IsPrefix(a, b) == Len(a) <= Len(b) /\ SubSeq(b, 1, Len(a)) = a

\* C21: in every step that is not a clearChat the history before the step
\* is an initial part of the history after it: no message is removed,
\* reordered or altered, and only clearChat empties history.
C21_HistoryOnlyGrows ==
  [][~ClearChat => IsPrefix(messages, messages')]_vars

\* C21 witness: history grown by a send, a done and a second send.
C21_Witness ==
  /\ Len(messages) = 3
  /\ messages[1].role = "user"
  /\ messages[2].role = "assistant"
  /\ messages[3].role = "user"

\* The assistant messages the done events among calls commit, the
\* accumulator holding acc before the first of the calls.
RECURSIVE Commits(_, _)
Commits(acc, calls) ==
  IF calls = <<>> THEN <<>>
  ELSE IF Head(calls).cb = "onToken"
    THEN Commits(acc \o JsToString(Head(calls).args[1]), Tail(calls))
  ELSE IF Head(calls).cb = "onDone" /\ acc # <<>>
    THEN <<Message("assistant", acc)>> \o Commits(acc, Tail(calls))
  ELSE Commits(acc, Tail(calls))

\* C22: a step that is not a clearChat appends to history either the user
\* message of the send it performs, or, for each done event it dispatches
\* while the accumulator is not empty, an assistant message holding the
\* accumulator's value at that moment; nothing else is appended.
C22_WhoAppends ==
  [][~ClearChat =>
       \/ /\ Len(streams') = Len(streams) + 1
          /\ messages' =
               Append(messages, Message("user", streams'[Len(streams')].request.message))
       \/ /\ Len(streams') = Len(streams)
          /\ messages' =
               messages \o Flatten([i \in DOMAIN streams |-> Commits(contentRef, NewCalls(i))])]_vars

\* C22 witness: a done event has committed the accumulator after the user
\* message of a send.
C22_Witness ==
  /\ messages = << Message("user", S(<<"h", "i">>)),
                   Message("assistant", S(<<"a", "b">>)) >>
  /\ contentRef = S(<<"a", "b">>)

\* The callback stream i dispatches last in the step at hand is cb.
EndsWith(i, cb) ==
  NewCalls(i) # <<>> /\ NewCalls(i)[Len(NewCalls(i))].cb = cb

\* C23: right after an onDone the accumulator, streamingContent and status
\* are empty and isStreaming is false.
C23_AfterDone ==
  [][\A i \in DOMAIN streams :
       EndsWith(i, "onDone") =>
         /\ contentRef' = <<>>
         /\ streamingContent' = <<>>
         /\ status' = Str(<<>>)
         /\ ~isStreaming']_vars

\* C24: right after an onError the accumulator and streamingContent are
\* empty.
C24_AfterError ==
  [][\A i \in DOMAIN streams :
       EndsWith(i, "onError") =>
         /\ contentRef' = <<>>
         /\ streamingContent' = <<>>]_vars

\* C25: the step of a send leaves isStreaming true and streamingContent,
\* status, requirements, complianceResults and the accumulator empty,
\* whatever they held before, its request just issued and no callback of
\* it dispatched yet.
C25_SendResetsTurnState ==
  [][Len(streams') = Len(streams) + 1 =>
       /\ isStreaming'
       /\ streamingContent' = <<>>
       /\ status' = Str(<<>>)
       /\ requirements' = Arr(<<>>)
       /\ complianceResults' = Arr(<<>>)
       /\ contentRef' = <<>>
       /\ streams'[Len(streams')].phase = "fetching"
       /\ streams'[Len(streams')].calls = <<>>]_vars

\* C25 witness: a second send, made after a turn that left requirements and
\* accumulated content behind, has reset them.
C25_Witness ==
  /\ Len(streams) = 2
  /\ IsAnswer(streams[1].calls)
  /\ streams[1].phase = "returned"
  /\ streams[2].phase = "fetching"
  /\ isStreaming
  /\ requirements = Arr(<<>>)
  /\ contentRef = <<>>

\* Every character of the text is white space.
AllWhite(s) == \A k \in DOMAIN s : IsWhite(s[k])

\* Text t is text s without its leading and trailing white space.
IsTrimOf(t, s) ==
  \E a, b \in 0..Len(s) :
    /\ a <= b
    /\ t = SubSeq(s, a + 1, b)
    /\ AllWhite(SubSeq(s, 1, a))
    /\ AllWhite(SubSeq(s, b + 1, Len(s)))
    /\ (t = <<>> \/ (~IsWhite(t[1]) /\ ~IsWhite(t[Len(t)])))

\* C26: a submit of an empty or all-white input changes nothing, and a
\* submit that sends puts the input without its leading and trailing white
\* space both in the request and in the user message appended to history.
C26_TrimmedSubmit ==
  \A input \in Inputs :
    /\ AllWhite(input) => ~ENABLED (HandleSend(input) /\ vars' # vars)
    /\ ~ENABLED (/\ HandleSend(input)
                 /\ Len(streams') = Len(streams) + 1
                 /\ ~(/\ IsTrimOf(streams'[Len(streams')].request.message, input)
                      /\ streams'[Len(streams')].request.message # <<>>
                      /\ messages' =
                           Append(messages,
                                  Message("user", streams'[Len(streams')].request.message))))

\* C26 witness: the input " q " was submitted and sent: request and history
\* hold "q".
C26_Witness ==
  /\ streams # <<>>
  /\ streams[Latest].request.message = S(<<"q">>)
  /\ messages # <<>>
  /\ messages[Len(messages)] = Message("user", S(<<"q">>))

\* C27: the step of a send appends the user message to history with the
\* request just issued and no response yet; and in every later step that is
\* not a clearChat, whatever happens to the turn, the user message of every
\* turn stays where it is in history.
C27_UserMessageStays ==
  [][/\ Len(streams') = Len(streams) + 1 =>
          /\ messages' =
               Append(messages, Message("user", streams'[Len(streams')].request.message))
          /\ streams'[Len(streams')].phase = "fetching"
          /\ streams'[Len(streams')].body = <<>>
     /\ ~ClearChat =>
          \A i \in DOMAIN streams : \A k \in DOMAIN messages :
            messages[k] = Message("user", streams[i].request.message) =>
              (k \in DOMAIN messages' /\ messages'[k] = messages[k])]_vars

\* C27 witness: a turn whose request failed to open and a turn whose stream
\* ended without done; history holds the user messages of both.
C27_Witness ==
  /\ Len(streams) = 2
  /\ streams[1].phase = "thrown"
  /\ streams[1].body = <<>>
  /\ streams[2].phase = "returned"
  /\ ~Fired(streams[2].calls, "onDone")
  /\ ~Fired(streams[2].calls, "onError")
  /\ messages = << Message("user", streams[1].request.message),
                   Message("user", streams[2].request.message) >>

\* Stream i dispatches callbacks in the step at hand, all of them among cbs.
OnlyCalls(i, cbs) ==
  NewCalls(i) # <<>> /\ \A k \in DOMAIN NewCalls(i) : NewCalls(i)[k].cb \in cbs

\* C28: a step that dispatches only onStatus leaves status equal to the
\* latest message and nothing else changed; one that dispatches only
\* onRequirements leaves requirements and complianceResults equal to the
\* latest payload and nothing else changed; one that dispatches only
\* onToken appends the fragments to the accumulator, copies it to
\* streamingContent and changes nothing else; and no mix of the three
\* changes history or isStreaming.
C28_LocalEffects ==
  [][\A i \in DOMAIN streams :
       /\ OnlyCalls(i, {"onStatus"}) =>
            /\ status' = NewCalls(i)[Len(NewCalls(i))].args[1]
            /\ UNCHANGED <<messages, isStreaming, streamingContent, requirements,
                           complianceResults, contentRef>>
       /\ OnlyCalls(i, {"onRequirements"}) =>
            /\ requirements' = NewCalls(i)[Len(NewCalls(i))].args[1]
            /\ complianceResults' = NewCalls(i)[Len(NewCalls(i))].args[2]
            /\ UNCHANGED <<messages, isStreaming, streamingContent, status, contentRef>>
       /\ OnlyCalls(i, {"onToken"}) =>
            /\ contentRef' = contentRef \o TokenText(NewCalls(i))
            /\ streamingContent' = contentRef'
            /\ UNCHANGED <<messages, isStreaming, status, requirements, complianceResults>>
       /\ OnlyCalls(i, {"onStatus", "onRequirements", "onToken"}) =>
            UNCHANGED <<messages, isStreaming>>]_vars

\* C28 witness: a status, a requirements and a token event were applied
\* one after the other in a turn still streaming.
C28_Witness ==
  /\ Len(streams) = 1
  /\ Len(streams[1].calls) = 3
  /\ status = Str(S(<<"s">>))
  /\ requirements = Arr(<<Str(S(<<"R", "1">>))>>)
  /\ complianceResults = Arr(<<>>)
  /\ contentRef = S(<<"a">>)
  /\ streamingContent = S(<<"a">>)
  /\ isStreaming
  /\ Len(messages) = 1

\* The phases an invocation of streamChat may pass to from phase p in one
\* step.
NextPhases(p) ==
  CASE p = "fetching" -> {"fetching", "reading", "thrown"}
    [] p = "reading" -> {"reading", "returned", "thrown"}
    [] OTHER -> {p}

\* C29: an invocation of streamChat holds the one request it issued when it
\* started and never issues another: its request never changes, it never
\* goes back to awaiting a response, the body of its response is never
\* replaced nor read again from an earlier position, and an invocation that
\* has returned or thrown does nothing more; invocations start only with a
\* send, one for each.
C29_OneRequestPerInvocation ==
  [][/\ Len(streams') \in {Len(streams), Len(streams) + 1}
     /\ Len(streams') = Len(streams) + 1 => Len(messages') = Len(messages) + 1
     /\ \A i \in DOMAIN streams :
          /\ streams'[i].request = streams[i].request
          /\ streams'[i].phase \in NextPhases(streams[i].phase)
          /\ streams[i].phase # "fetching" => streams'[i].body = streams[i].body
          /\ streams'[i].pos >= streams[i].pos
          /\ streams[i].phase \in {"returned", "thrown"} => streams'[i] = streams[i]]_vars

\* C29 witness: one invocation ended by a read failure in the middle of its
\* body, one by a non-success status, one request each.
C29_Witness ==
  /\ Len(streams) = 2
  /\ streams[1].phase = "thrown"
  /\ streams[1].pos > 0
  /\ streams[1].pos < Len(streams[1].body)
  /\ streams[2].phase = "thrown"
  /\ streams[2].body = <<>>
  /\ \E t \in StatusTexts : status = Str(ErrorPrefix \o RequestFailed \o t)

\* A data line whose payload is empty once its white space is removed.
IsEmptyData(line) ==
  /\ ~StartsWith(line, KwEvent)
  /\ StartsWith(line, KwData)
  /\ AllWhite(Slice(line, 5))

\* Data lines with an empty payload: bare, with a blank, with a carriage
\* return.
EmptyDataLines == {KwData, KwData \o <<32>>, KwData \o CR}

\* C30: a data line whose payload is empty after trimming dispatches nothing
\* and leaves the current event name alone: at every point of a body the
\* callbacks dispatched and the current event name are those of the same
\* lines without such data lines, and such a line handled under the event
\* name the parser holds at that point gives no callback and the same name.
C30_EmptyPayloadIgnored ==
  \A i \in DOMAIN streams :
    streams[i].phase \in {"reading", "returned"} =>
      /\ With(CompleteLines(SubSeq(streams[i].body, 1, streams[i].pos)), LAMBDA lines :
           With(ProcessLines(<<>>, SelectSeq(lines, LAMBDA l : ~IsEmptyData(l)), <<>>),
                LAMBDA r :
             /\ streams[i].calls = r.calls
             /\ streams[i].parser.currentEvent = r.currentEvent))
      /\ \A line \in EmptyDataLines :
           ProcessLine(streams[i].parser.currentEvent, line) =
             [currentEvent |-> streams[i].parser.currentEvent, calls |-> <<>>]

\* C30 witness: a body read to its end held a data line with an empty
\* payload under the event name done, and no onDone was dispatched.
C30_Witness ==
  \E i \in DOMAIN streams :
    /\ streams[i].phase = "returned"
    /\ \E k \in DOMAIN CompleteLines(streams[i].body) :
         /\ IsEmptyData(CompleteLines(streams[i].body)[k])
         /\ EventAt(CompleteLines(streams[i].body), k) = NmDone
    /\ ~Fired(streams[i].calls, "onDone")

\* The text of the bytes received so far, as a streaming decoder gives it.
TextReceived(st) == Decode(NewDecoder, SubSeq(st.body, 1, st.pos)).text

\* C31: no line is processed before it is fully received: after each chunk
\* the carry-over holds no line feed and is the text received after the last
\* line feed, and the lines handed to line processing, each followed by a
\* line feed, make up the text received before the carry-over.
C31_OnlyCompleteLines ==
  \A i \in DOMAIN streams :
    streams[i].phase \in {"reading", "returned"} =>
      With(TextReceived(streams[i]), LAMBDA text :
        /\ \A k \in DOMAIN streams[i].parser.buffer : streams[i].parser.buffer[k] # 10
        /\ \A n \in DOMAIN streams[i].lines :
             \A k \in DOMAIN streams[i].lines[n] : streams[i].lines[n][k] # 10
        /\ Flatten([n \in DOMAIN streams[i].lines |-> streams[i].lines[n] \o LF])
             \o streams[i].parser.buffer = text
        /\ streams[i].lines = CompleteLines(SubSeq(streams[i].body, 1, streams[i].pos)))

\* C31 witness: a chunk ended inside a data line after lines before it were
\* processed, and the part of the data line received is the carry-over.
C31_Witness ==
  \E i \in DOMAIN streams :
    /\ streams[i].phase = "reading"
    /\ Len(streams[i].lines) >= 2
    /\ streams[i].calls # <<>>
    /\ Len(streams[i].parser.buffer) > Len(KwData)
    /\ StartsWith(streams[i].parser.buffer, KwData)

\* C32: the chat_history of a turn's request is the whole history, in its
\* order, as it stood just before the turn's user message was appended: on
\* every step that opens a request, the request carries the history of
\* before the step, the history after the step is that history followed by
\* the user message of the request, and the request never changes afterwards.
C32_HistorySent ==
  [][/\ Len(streams') = Len(streams) + 1 =>
          /\ streams'[Len(streams')].request.chat_history = messages
          /\ messages' = Append(messages,
                                Message("user", streams'[Len(streams')].request.message))
     /\ \A i \in DOMAIN streams :
          i \in DOMAIN streams' => streams'[i].request = streams[i].request]_vars

\* C32 witness: the second turn was sent with the user message and the
\* assistant message of the first turn as its chat_history, and its own user
\* message comes third in the history.
C32_Witness ==
  /\ Len(streams) = 2
  /\ Len(streams[2].request.chat_history) = 2
  /\ streams[2].request.chat_history[1].role = "user"
  /\ streams[2].request.chat_history[2].role = "assistant"
  /\ Len(messages) >= 3
  /\ messages[3] = Message("user", streams[2].request.message)
  /\ SubSeq(messages, 1, 2) = streams[2].request.chat_history

\* The assistant messages of the history.
AssistantMessages == SelectSeq(messages, LAMBDA m : m.role = "assistant")

\* C33: each turn appends at most one assistant message to history, also
\* when its stream dispatches done more than once or a token after a done:
\* the history never holds more assistant messages than turns were started.
C33_OneAssistantPerTurn == Len(AssistantMessages) <= Len(streams)

\* C34: when a read of the latest turn's body failed after tokens had been
\* received and before any done or error event, then, until the next send or
\* clearChat, isStreaming is false, status is the error prefix followed by
\* the failure's message, and history ends with the user message of the
\* turn: neither the failure nor a later step commits the tokens received.
C34_ReadFailureEndsTurn ==
  (/\ streams # <<>>
   /\ streams[Latest].phase = "thrown"
   /\ Fired(streams[Latest].calls, "onToken")
   /\ ~Fired(streams[Latest].calls, "onDone")
   /\ ~Fired(streams[Latest].calls, "onError")
   /\ messages # <<>>) =>
    /\ ~isStreaming
    /\ status = Str(ErrorPrefix \o ReadFailed)
    /\ messages[Len(messages)] = Message("user", streams[Latest].request.message)

\* C35: when the stream ends, the carry-over is dropped unprocessed: the
\* step in which streamChat returns dispatches no callback, hands no line to
\* line processing and changes nothing in the hook, so the lines processed
\* and the callbacks dispatched by a stream that returned are those of the
\* lines of its body that end with a line feed.
C35_TrailingLineDiscarded ==
  [][\A i \in DOMAIN streams :
       (streams[i].phase = "reading" /\ streams'[i].phase = "returned") =>
         /\ streams'[i].calls = streams[i].calls
         /\ streams'[i].lines = streams[i].lines
         /\ UNCHANGED hookVars
         /\ streams'[i].lines = CompleteLines(streams[i].body)
         /\ streams'[i].calls =
              ProcessLines(<<>>, CompleteLines(streams[i].body), <<>>).calls]_vars

\* C35 witness: streamChat returned with a data line of a done event in the
\* carry-over, its payload being JSON, and no onDone was dispatched.
C35_Witness ==
  \E i \in DOMAIN streams :
    /\ streams[i].phase = "returned"
    /\ StartsWith(streams[i].parser.buffer, KwData)
    /\ JsonParse(Trim(Slice(streams[i].parser.buffer, 5))).ok
    /\ streams[i].parser.currentEvent = NmDone
    /\ ~Fired(streams[i].calls, "onDone")
    /\ isStreaming

\* C36: the current event name changes only on an event line: after every
\* chunk the parser holds the name of the last event line processed (the
\* empty name if there was none), every line was handled under the name of
\* the last event line before it, and a line that is no event line, be it
\* empty, a data line or any other, left the name as it was.
C36_NameSetOnlyByEventLine ==
  \A i \in DOMAIN streams :
    streams[i].phase \in {"reading", "returned"} =>
      With(streams[i].lines, LAMBDA lines :
        /\ streams[i].parser.currentEvent = LastEventName(lines, Len(lines) + 1)
        /\ \A k \in DOMAIN lines :
             /\ EventAt(lines, k) = LastEventName(lines, k)
             /\ ~StartsWith(lines[k], KwEvent) =>
                  ProcessLine(EventAt(lines, k), lines[k]).currentEvent = EventAt(lines, k)
             /\ ProcessLine(EventAt(lines, k), lines[k]).calls = LineCalls(lines, k))

\* C36 witness: a stream with a single event line, naming token, dispatched
\* three tokens from three data lines with an empty line and a comment line
\* between them.
C36_Witness ==
  \E i \in DOMAIN streams :
    /\ streams[i].phase = "returned"
    /\ Cardinality({k \in DOMAIN streams[i].lines :
                      StartsWith(streams[i].lines[k], KwEvent)}) = 1
    /\ \E k \in DOMAIN streams[i].lines : streams[i].lines[k] = <<>>
    /\ Len(streams[i].calls) = 3
    /\ \A k \in DOMAIN streams[i].calls : streams[i].calls[k].cb = "onToken"
    /\ contentRef = S(<<"m", "n", "o">>)

\* The selection of a document type.
Selected(type) == IF type = "regulation" THEN selectedCompliance ELSE selectedInternal

\* C37: when handleDelete has succeeded for a document, the selection of the
\* document's type is the selection of that moment without the document, so
\* that every change the user made while the delete and the refresh were in
\* flight is kept, and the other selection is as it was; when the delete
\* fails both selections are as they were.
C37_DeleteKeepsSelection ==
  [][\A i \in DOMAIN deletes :
       /\ (deletes[i].phase = "refreshing" /\ deletes'[i].phase = "finished") =>
            /\ selectedCompliance' =
                 IF deletes[i].type = "regulation"
                   THEN Without(selectedCompliance, deletes[i].docId)
                   ELSE selectedCompliance
            /\ selectedInternal' =
                 IF deletes[i].type = "company_doc"
                   THEN Without(selectedInternal, deletes[i].docId)
                   ELSE selectedInternal
       /\ (deletes[i].phase = "deleting" /\ deletes'[i].phase = "failed") =>
            UNCHANGED <<selectedCompliance, selectedInternal>>]_vars

====
